---- MODULE Spec2Model ----
(***************************************************************************)
(* InkSight graphology core: extract_graphological_features and            *)
(* get_personality_profile of src/src/graphology_module.py, and the calls  *)
(* app.py makes to them.                                                   *)
(*                                                                         *)
(* Numbers.  A feature value is an exact rational <<n, d>> with d > 0;     *)
(* <<0, 0>> stands for NaN (what numpy returns for the mean or median of   *)
(* an empty sample).  A trait score is a double; the doubles the scorer    *)
(* can produce are embedded, order preserving, into the integers: the      *)
(* decimal k/10 is 1000*k, and a double that lies just above k/10 (such as *)
(* 0.4 - 0.1 = 0.30000000000000004) is 1000*k + 1.                         *)
(***************************************************************************)
EXTENDS Integers, Sequences, FiniteSets, TLC

VARIABLES
  image,           \* the input of the run under way (see Images below)
  features,        \* app.py: features, the dict extract_... returned
  quantitative,    \* app.py: q_profile
  descriptive,     \* app.py: d_profile
  preclamp,        \* quantitative as it stood when the clamp loop began
  lines_of_words,  \* the local lines_of_words of the last extraction
  phase,           \* "start", "extracted" or "profiled"
  seen             \* history: one record per completed run, in order

vars == <<image, features, quantitative, descriptive, preclamp,
          lines_of_words, phase, seen>>

(***************************************************************************)
(* Rational arithmetic                                                     *)
(***************************************************************************)
Abs(n) == IF n < 0 THEN -n ELSE n

RECURSIVE Gcd(_, _)
Gcd(a, b) == IF b = 0 THEN a ELSE Gcd(b, a % b)

NaN == <<0, 0>>

\* n/d in lowest terms with a positive denominator; d = 0 gives NaN
Rat(n, d) ==
  IF d = 0 THEN NaN
  ELSE LET g == Gcd(Abs(n), Abs(d))
           s == IF d < 0 THEN -1 ELSE 1
       IN <<(s * n) \div g, (s * d) \div g>>

R(n) == <<n, 1>>

IsNaN(a) == a[2] = 0
IsFinite(a) == a[2] > 0

\* comparisons as IEEE: every comparison with NaN is false
RLt(a, b) == IsFinite(a) /\ IsFinite(b) /\ a[1] * b[2] < b[1] * a[2]
RGt(a, b) == RLt(b, a)
RLe(a, b) == IsFinite(a) /\ IsFinite(b) /\ a[1] * b[2] <= b[1] * a[2]
REq(a, b) == IsFinite(a) /\ IsFinite(b) /\ a[1] * b[2] = b[1] * a[2]

RAdd(a, b) == IF IsNaN(a) \/ IsNaN(b) THEN NaN
              ELSE Rat(a[1] * b[2] + b[1] * a[2], a[2] * b[2])
RSub(a, b) == IF IsNaN(a) \/ IsNaN(b) THEN NaN
              ELSE Rat(a[1] * b[2] - b[1] * a[2], a[2] * b[2])
RHalf(a) == IF IsNaN(a) THEN NaN ELSE Rat(a[1], 2 * a[2])

(***************************************************************************)
(* Trait scores (doubles, embedded as described above)                     *)
(***************************************************************************)
Traits == {"Sociability", "Focus", "Intensity", "Optimism", "Discipline",
           "Spontaneity"}

\* v - 0.2: the wide-spacing step written as large as the narrow-spacing one
FSub02(v) == v - 2000

\* the double result of  v - 0.1  for the values Sociability can hold there
\* (0.8, 0.2, 0.4):  0.8 - 0.1 = 0.7000000000000001 and
\* 0.4 - 0.1 = 0.30000000000000004, while 0.2 - 0.1 = 0.1 exactly
FSub01(v) == IF v \in {8000, 4000} THEN v - 1000 + 1 ELSE v - 1000

\* the double result of  v + 0.2  for the values Sociability and Discipline
\* can hold there (0.8, 0.2, 0.4, 0.3):  0.4 + 0.2 = 0.6000000000000001,
\* while 0.8 + 0.2 = 1.0, 0.2 + 0.2 = 0.4 and 0.3 + 0.2 = 0.5 exactly
FAdd02(v) == IF v = 4000 THEN v + 2000 + 1 ELSE v + 2000

\* np.clip(v, 10, 100): bounds written on a percent scale
ClipPercentScale(v) ==
  IF v < 10 * 10000 THEN 10 * 10000 ELSE IF v > 100 * 10000 THEN 100 * 10000 ELSE v

\* np.clip(v, 0.1, 1.0)
Clip(v) == IF v < 1000 THEN 1000 ELSE IF v > 10000 THEN 10000 ELSE v

\* descriptive[k] = v
Put(d, k, v) == (k :> v) @@ d

EmptyDict == [k \in {} |-> ""]

(***************************************************************************)
(* get_personality_profile, rule by rule.  Each rule takes the feature     *)
(* vector f and the pair s = [q |-> quantitative, d |-> descriptive] as    *)
(* the preceding rules left it.                                            *)
(***************************************************************************)
InitialProfile ==
  [q |-> [Sociability |-> 5000, Focus |-> 5000, Intensity |-> 5000,
          Optimism |-> 5000, Discipline |-> 5000, Spontaneity |-> 5000],
   d |-> EmptyDict]

SociabilityFromSlant(f, s) ==
  IF RGt(f.slant, R(5))
  THEN [q |-> [s.q EXCEPT !.Sociability = 8000],
        d |-> Put(s.d, "Outlook", "Sociable, expressive, approach-oriented.")]
  ELSE IF RLt(f.slant, R(-5))
  THEN [q |-> [s.q EXCEPT !.Sociability = 2000],
        d |-> Put(s.d, "Outlook", "Reserved, withdrawn, avoids conflict.")]
  ELSE [q |-> [s.q EXCEPT !.Sociability = 4000],
        d |-> Put(s.d, "Outlook", "Controlled, independent, balanced.")]

\* the wide-spacing test written >= instead of >
SociabilityFromSpacingInclusive(f, s) ==
  IF RLe(f.letter_size, f.word_spacing)
  THEN [q |-> [s.q EXCEPT !.Sociability = FSub01(@)],
        d |-> Put(s.d, "Social Type", "Values space, independent.")]
  ELSE IF RLt(f.word_spacing, RHalf(f.letter_size))
  THEN [q |-> [s.q EXCEPT !.Sociability = FAdd02(@)],
        d |-> Put(s.d, "Social Type", "Sociable, seeks closeness.")]
  ELSE s

SociabilityFromSpacing(f, s) ==
  IF RGt(f.word_spacing, f.letter_size)
  THEN [q |-> [s.q EXCEPT !.Sociability = FSub01(@)],
        d |-> Put(s.d, "Social Type", "Values space, independent.")]
  ELSE IF RLt(f.word_spacing, RHalf(f.letter_size))
  THEN [q |-> [s.q EXCEPT !.Sociability = FAdd02(@)],
        d |-> Put(s.d, "Social Type", "Sociable, seeks closeness.")]
  ELSE s

FocusFromLetterSize(f, s) ==
  IF RGt(f.letter_size, R(50))
  THEN [q |-> [s.q EXCEPT !.Focus = 3000],
        d |-> Put(s.d, "Focus", "Outgoing, assertive, big-picture oriented.")]
  ELSE IF RLt(f.letter_size, R(25))
  THEN [q |-> [s.q EXCEPT !.Focus = 9000],
        d |-> Put(s.d, "Focus", "Focused, introverted, detail-oriented.")]
  ELSE [s EXCEPT !.d = Put(@, "Focus", "Balanced and adaptable.")]

\* dark and light ink exchanged
IntensityDarkLightSwapped(f, s) ==
  IF RLt(f.pressure, R(120))
  THEN [q |-> [s.q EXCEPT !.Intensity = 2000],
        d |-> Put(s.d, "Intensity", "Sensitive, empathetic, low arousal.")]
  ELSE IF RGt(f.pressure, R(180))
  THEN [q |-> [s.q EXCEPT !.Intensity = 8000],
        d |-> Put(s.d, "Intensity", "Intense, forceful, high energy.")]
  ELSE [s EXCEPT !.d = Put(@, "Intensity", "Balanced emotional intensity.")]

IntensityFromPressure(f, s) ==
  IF RLt(f.pressure, R(120))
  THEN [q |-> [s.q EXCEPT !.Intensity = 8000],
        d |-> Put(s.d, "Intensity", "Intense, forceful, high energy.")]
  ELSE IF RGt(f.pressure, R(180))
  THEN [q |-> [s.q EXCEPT !.Intensity = 2000],
        d |-> Put(s.d, "Intensity", "Sensitive, empathetic, low arousal.")]
  ELSE [s EXCEPT !.d = Put(@, "Intensity", "Balanced emotional intensity.")]

\* rising and falling slope exchanged
OptimismSignSwapped(f, s) ==
  IF RGt(f.baseline_slope, Rat(5, 100))
  THEN [q |-> [s.q EXCEPT !.Optimism = 2000],
        d |-> Put(s.d, "Mood", "Pessimistic, tired, or discouraged.")]
  ELSE IF RLt(f.baseline_slope, Rat(-5, 100))
  THEN [q |-> [s.q EXCEPT !.Optimism = 8000],
        d |-> Put(s.d, "Mood", "Optimistic, energetic, ambitious.")]
  ELSE [q |-> [s.q EXCEPT !.Optimism = 5000],
        d |-> Put(s.d, "Mood", "Steady, balanced, and stable.")]

OptimismFromBaseline(f, s) ==
  IF RLt(f.baseline_slope, Rat(-5, 100))
  THEN [q |-> [s.q EXCEPT !.Optimism = 2000],
        d |-> Put(s.d, "Mood", "Pessimistic, tired, or discouraged.")]
  ELSE IF RGt(f.baseline_slope, Rat(5, 100))
  THEN [q |-> [s.q EXCEPT !.Optimism = 8000],
        d |-> Put(s.d, "Mood", "Optimistic, energetic, ambitious.")]
  ELSE [q |-> [s.q EXCEPT !.Optimism = 5000],
        d |-> Put(s.d, "Mood", "Steady, balanced, and stable.")]

\* both bands taken without their bounds
DisciplineStrictBands(f, s) ==
  LET straight == RLt(Rat(-5, 100), f.baseline_slope)
                    /\ RLt(f.baseline_slope, Rat(5, 100))
      vertical == RLt(R(-5), f.slant) /\ RLt(f.slant, R(5))
      assigned == IF straight THEN 8000 ELSE 3000
  IN [s EXCEPT !.q.Discipline = IF vertical THEN FAdd02(assigned) ELSE assigned]

DisciplineFromBaselineAndSlant(f, s) ==
  LET straight == RLe(Rat(-5, 100), f.baseline_slope)
                    /\ RLe(f.baseline_slope, Rat(5, 100))
      vertical == RLe(R(-5), f.slant) /\ RLe(f.slant, R(5))
      assigned == IF straight THEN 8000 ELSE 3000
  IN [s EXCEPT !.q.Discipline = IF vertical THEN FAdd02(assigned) ELSE assigned]

\* the wide-margin test written >= instead of >
SpontaneityInclusiveMargin(f, s) ==
  IF RLe(R(40), f.left_margin)
  THEN [q |-> [s.q EXCEPT !.Spontaneity = 2000],
        d |-> Put(s.d, "Planning", "Cautious, planned, looks to the future.")]
  ELSE IF RLt(f.left_margin, R(20))
  THEN [q |-> [s.q EXCEPT !.Spontaneity = 9000],
        d |-> Put(s.d, "Planning", "Spontaneous, impulsive, lives in the moment.")]
  ELSE s

SpontaneityFromLeftMargin(f, s) ==
  IF RGt(f.left_margin, R(40))
  THEN [q |-> [s.q EXCEPT !.Spontaneity = 2000],
        d |-> Put(s.d, "Planning", "Cautious, planned, looks to the future.")]
  ELSE IF RLt(f.left_margin, R(20))
  THEN [q |-> [s.q EXCEPT !.Spontaneity = 9000],
        d |-> Put(s.d, "Planning", "Spontaneous, impulsive, lives in the moment.")]
  ELSE s

\* the rules in the order of the code, up to the clamp loop
ApplyRules(f) ==
  SpontaneityFromLeftMargin(f,
    DisciplineFromBaselineAndSlant(f,
      OptimismFromBaseline(f,
        IntensityFromPressure(f,
          FocusFromLetterSize(f,
            SociabilityFromSpacing(f,
              SociabilityFromSlant(f, InitialProfile)))))))

\* for k in quantitative: quantitative[k] = np.clip(quantitative[k], 0.1, 1.0)
ClipScores(q) == [k \in DOMAIN q |-> Clip(q[k])]

\* the call: what it returns, the scores as they stood before the clamp loop,
\* and the argument dict as the call leaves it (the code only reads it)
get_personality_profile(f) ==
  LET s == ApplyRules(f)
  IN [quantitative |-> ClipScores(s.q),
      descriptive |-> s.d,
      preclamp |-> s.q,
      features |-> f]

(***************************************************************************)
(* numpy helpers                                                           *)
(***************************************************************************)
RECURSIVE SeqSum(_)
SeqSum(s) == IF s = <<>> THEN 0 ELSE Head(s) + SeqSum(Tail(s))

\* np.mean of a sequence of integers: NaN for an empty one
Mean(s) == Rat(SeqSum(s), Len(s))

\* ink_pixels.all()
AllNonZero(s) == \A i \in 1..Len(s) : s[i] # 0

\* ink_pixels.any()
AnyNonZero(s) == \E i \in 1..Len(s) : s[i] # 0

\* the orders the code sorts by
\*   "yx"     key=lambda b: (b[1], b[0])
\*   "x"      key=lambda b: b[0]
\*   "value"  numbers, as np.median sorts them
Le(key, a, b) ==
  CASE key = "yx" -> a.y < b.y \/ (a.y = b.y /\ a.x <= b.x)
    [] key = "x" -> a.x <= b.x
    [] key = "value" -> RLe(a, b)

\* e inserted into the sorted sequence s behind every element that is not
\* greater: inserting the elements of a list one by one, in list order, is
\* the stable sort of Python's sort() and sorted()
RECURSIVE InsertBy(_, _, _)
InsertBy(key, e, s) ==
  IF s = <<>> THEN <<e>>
  ELSE IF Le(key, Head(s), e) THEN <<Head(s)>> \o InsertBy(key, e, Tail(s))
  ELSE <<e>> \o s

RECURSIVE SortBy(_, _)
SortBy(key, s) ==
  IF s = <<>> THEN <<>>
  ELSE InsertBy(key, s[Len(s)], SortBy(key, SubSeq(s, 1, Len(s) - 1)))

\* np.median of a sequence of rationals: NaN for an empty one
Median(s) ==
  LET n == Len(s)
      t == SortBy("value", s)
  IN IF n = 0 THEN NaN
     ELSE IF n % 2 = 1 THEN t[(n + 1) \div 2]
     ELSE RHalf(RAdd(t[n \div 2], t[n \div 2 + 1]))

\* np.diff
Diff(s) == [i \in 1..(Len(s) - 1) |-> RSub(s[i + 1], s[i])]

Rats(s) == [i \in 1..Len(s) |-> R(s[i])]

\* the slope m of  m, _ = np.polyfit(points_x, points_y, 1)  for at least two
\* points, the x given doubled (x2 = 2 * points_x, an integer).  When all x
\* are equal the system is rank deficient and lstsq returns the solution of
\* least norm, slope = mean(y) / (2 * x) = mean(y) / x2.
PolyfitSlope(x2, y) ==
  LET n == Len(x2)
      sx == SeqSum(x2)
      sy == SeqSum(y)
      sxy == SeqSum([i \in 1..n |-> x2[i] * y[i]])
      sxx == SeqSum([i \in 1..n |-> x2[i] * x2[i]])
      den == n * sxx - sx * sx
  IN IF den = 0 THEN Rat(sy, n * x2[1])
     ELSE Rat(2 * (n * sxy - sx * sy), den)

(***************************************************************************)
(* extract_graphological_features                                          *)
(*                                                                         *)
(* An image is what the code reads of gray_image and binary_image:         *)
(*   ink_pixels     gray_image[binary_image == 255], a sequence of 0..255  *)
(*   word_contours  for each contour c of the dilated mask, in the order   *)
(*                  findContours returns them, [x, y, w, h] =              *)
(*                  cv2.boundingRect(c) and angle = cv2.minAreaRect(c)[-1] *)
(* The mask holds 0 and 255 only (preprocess_for_graphology thresholds to  *)
(* 255), so it has a contour exactly when it has an ink pixel, and then    *)
(* the dilated mask has one too.                                           *)
(***************************************************************************)
FeatureKeys == {"pressure", "letter_size", "slant", "baseline_slope",
                "word_spacing", "line_spacing", "left_margin"}

\* the features literal a call starts from
NewFeatures ==
  [pressure |-> R(0), letter_size |-> R(0), slant |-> R(0),
   baseline_slope |-> R(0), word_spacing |-> R(0), line_spacing |-> R(0),
   left_margin |-> R(0)]

\* contours of cv2.findContours(binary_image, ...) is not empty
HasContours(img) == Len(img.ink_pixels) > 0

\* if w > 10 and h > 10
PassesNoiseFilter(c) == c.w > 10 /\ c.h > 10

\* word_bboxes as appended in the loop over word_contours
WordBoxes(img) == SelectSeq(img.word_contours, PassesNoiseFilter)

\* angle of a retained box after the "verticalish" adjustment
AdjustedAngle(c) == IF c.w < c.h THEN 90 + c.angle ELSE c.angle

NonVertical(c) == Abs(AdjustedAngle(c)) < 45

\* word_angles
WordAngles(img) ==
  LET kept == SelectSeq(WordBoxes(img), NonVertical)
  IN [i \in 1..Len(kept) |-> AdjustedAngle(kept[i])]

\* the heights h for which the double h * 0.7 is below the integer 7h/10
\* (0.7 is the double 0.6999999999999999556; for every other multiple of 10
\* up to 400 the product rounds to 7h/10 exactly)
ProductRoundsBelow == {90, 170, 180, 330, 340, 350, 360}

\* abs(y - current_y) > h * 0.7, in double arithmetic: the left side is an
\* integer, so the rounding of the product matters only where 7h/10 is one
StartsNewLine(y, current_y, h) ==
  \/ 10 * Abs(y - current_y) > 7 * h
  \/ 10 * Abs(y - current_y) = 7 * h /\ h \in ProductRoundsBelow

\* the loop with current_y moved to every box it appends, so that a box is
\* compared with the box before it
RECURSIVE GroupLoopChained(_, _, _, _, _)
GroupLoopChained(boxes, i, current_line, current_y, lines) ==
  IF i > Len(boxes) THEN Append(lines, SortBy("x", current_line))
  ELSE IF StartsNewLine(boxes[i].y, current_y, boxes[i].h)
  THEN GroupLoopChained(boxes, i + 1, <<boxes[i]>>, boxes[i].y,
                        Append(lines, SortBy("x", current_line)))
  ELSE GroupLoopChained(boxes, i + 1, Append(current_line, boxes[i]),
                        boxes[i].y, lines)

\* the grouping loop from box i on, and the append that follows it
RECURSIVE GroupLoop(_, _, _, _, _)
GroupLoop(boxes, i, current_line, current_y, lines) ==
  IF i > Len(boxes) THEN Append(lines, SortBy("x", current_line))
  ELSE IF StartsNewLine(boxes[i].y, current_y, boxes[i].h)
  THEN GroupLoop(boxes, i + 1, <<boxes[i]>>, boxes[i].y,
                 Append(lines, SortBy("x", current_line)))
  ELSE GroupLoop(boxes, i + 1, Append(current_line, boxes[i]), current_y,
                 lines)

\* lines_of_words for the sorted, non-empty word_bboxes
GroupWords(boxes) == GroupLoop(boxes, 1, <<>>, boxes[1].y, <<>>)

\* the positive gaps between adjacent boxes of one line
LineGaps(line) ==
  LET all == [i \in 1..(Len(line) - 1) |->
                line[i + 1].x - (line[i].x + line[i].w)]
      Positive(g) == g > 0
  IN SelectSeq(all, Positive)

\* points_x doubled
PointsX2(line) == [i \in 1..Len(line) |-> 2 * line[i].x + line[i].w]

\* the top edge of each word
PointsYTop(line) == [i \in 1..Len(line) |-> line[i].y]

\* points_y, the bottom edge of each word
PointsY(line) == [i \in 1..Len(line) |-> line[i].y + line[i].h]

\* the guard written >= 1
FitsBaselineOffByOne(line) == Len(line) >= 1

\* if len(points_x) > 1
FitsBaseline(line) == Len(line) > 1

\* the samples collected by the loop over lines_of_words, from line i on
RECURSIVE LineLoop(_, _, _)
LineLoop(lines, i, acc) ==
  IF i > Len(lines) THEN acc
  ELSE IF lines[i] = <<>> THEN LineLoop(lines, i + 1, acc)
  ELSE
    LET line == lines[i]
        fitted == FitsBaseline(line)
    IN LineLoop(lines, i + 1,
         [left_margins |-> Append(acc.left_margins, line[1].x),
          word_gaps |-> acc.word_gaps \o LineGaps(line),
          baseline_slopes |->
            IF fitted
            THEN Append(acc.baseline_slopes,
                        PolyfitSlope(PointsX2(line), PointsY(line)))
            ELSE acc.baseline_slopes,
          line_y_coords |->
            IF fitted
            THEN Append(acc.line_y_coords, Median(Rats(PointsY(line))))
            ELSE acc.line_y_coords])

NoSamples ==
  [left_margins |-> <<>>, word_gaps |-> <<>>, baseline_slopes |-> <<>>,
   line_y_coords |-> <<>>]

\* lines_of_words as the call leaves it (empty when it returns early)
LinesOfWords(img) ==
  IF HasContours(img) /\ WordBoxes(img) # <<>>
  THEN GroupWords(SortBy("yx", WordBoxes(img)))
  ELSE <<>>

\* the samples of the image's lines (none when the call returns early)
Samples(img) == LineLoop(LinesOfWords(img), 1, NoSamples)

\* features[key] = value, whether or not there is a sample
SetAlways(f, key, nonempty, value) == [f EXCEPT ![key] = value]

\* if sample: features[key] = value
SetIf(f, key, nonempty, value) ==
  IF nonempty THEN [f EXCEPT ![key] = value] ELSE f

\* the body of the function, run on the dict f0
ExtractInto(f0, img) ==
  IF ~HasContours(img) THEN f0
  ELSE
    LET f1 == SetIf(f0, "pressure", AnyNonZero(img.ink_pixels), Mean(img.ink_pixels))
        word_bboxes == WordBoxes(img)
        heights == [i \in 1..Len(word_bboxes) |-> word_bboxes[i].h]
        word_angles == WordAngles(img)
        f2 == SetIf(f1, "letter_size", heights # <<>>, Median(Rats(heights)))
        f3 == SetIf(f2, "slant", word_angles # <<>>, Median(Rats(word_angles)))
        sorted == SortBy("yx", word_bboxes)
    IN IF sorted = <<>> THEN f3
       ELSE
         LET smp == LineLoop(GroupWords(sorted), 1, NoSamples)
             f4 == SetIf(f3, "word_spacing", smp.word_gaps # <<>>,
                         Median(Rats(smp.word_gaps)))
             f5 == SetIf(f4, "left_margin", smp.left_margins # <<>>,
                         Median(Rats(smp.left_margins)))
             f6 == SetIf(f5, "baseline_slope", smp.baseline_slopes # <<>>,
                         Median(smp.baseline_slopes))
             line_gaps == Diff(smp.line_y_coords)
         IN SetIf(f6, "line_spacing", Len(line_gaps) > 0, Median(line_gaps))

\* the dict kept between calls (a module-level dict, or a mutable default
\* argument) instead of a fresh literal
extract_reusing_dict(img) ==
  ExtractInto(IF DOMAIN features = {} THEN NewFeatures ELSE features, img)

extract_graphological_features(img) == ExtractInto(NewFeatures, img)

(***************************************************************************)
(* Inputs                                                                  *)
(***************************************************************************)
MaxBoxes == 4

\* runs of the pipeline in one behaviour
MaxRuns == 3

\* the sequences of at most n distinct elements of S
DistinctSeqs(S, n) ==
  UNION {{s \in [1..k -> S] : \A i, j \in 1..k : i # j => s[i] # s[j]} :
         k \in 0..n}

Contour(x, y, w, h, angle) == [x |-> x, y |-> y, w |-> w, h |-> h, angle |-> angle]

BlankImage == [ink_pixels |-> <<>>, word_contours |-> <<>>]

\* ink of an image that has some: all black, one grey level, mixed
InkSamples == {<<0>>, <<0, 0>>, <<100>>, <<0, 255>>, <<200, 250>>}

\* word contours of the pipeline's images: two words on a first line (A, B),
\* two on a second (C, D), a third line (G, H), a box stacked on A with the
\* same centre (E) and a speck the noise filter drops (F)
WordContours ==
  {Contour(5, 0, 60, 60, -10),    Contour(80, 10, 30, 20, -80),
   Contour(5, 100, 12, 40, -85),  Contour(60, 104, 60, 60, -3),
   Contour(5, 10, 60, 60, -10),   Contour(200, 50, 8, 8, -90),
   Contour(150, 200, 40, 30, -20), Contour(60, 200, 30, 30, -50)}

ImagesOver(inks, contours) ==
  {BlankImage} \cup
  {[ink_pixels |-> i, word_contours |-> c] :
     i \in inks, c \in DistinctSeqs(contours, MaxBoxes) \ {<<>>}}

\* pages of five words: a line of one word (C) between two lines of two,
\* and a line of one word (G) after them
Pages ==
  {[ink_pixels |-> <<100>>,
    word_contours |-> <<Contour(5, 0, 60, 60, -10), Contour(80, 10, 30, 20, -80),
                        Contour(5, 100, 12, 40, -85),
                        Contour(150, 200, 40, 30, -20), Contour(60, 200, 30, 30, -50)>>],
   [ink_pixels |-> <<100>>,
    word_contours |-> <<Contour(150, 200, 40, 30, -20),
                        Contour(5, 100, 12, 40, -85), Contour(60, 104, 60, 60, -3),
                        Contour(5, 0, 60, 60, -10), Contour(80, 10, 30, 20, -80)>>]}

Images == ImagesOver(InkSamples, WordContours) \cup Pages

\* boxes of height 20 (and one of height 90) around the line threshold
GroupContours ==
  {Contour(0, 0, 20, 20, 0),   Contour(30, 2, 20, 20, 0),
   Contour(0, 50, 20, 20, 0),  Contour(30, 52, 20, 20, 0),
   Contour(30, 14, 20, 20, 0), Contour(30, 16, 20, 20, 0),
   Contour(60, 10, 20, 20, 0), Contour(90, 20, 20, 20, 0),
   Contour(30, 63, 20, 90, 0), Contour(0, 12, 20, 20, 0)}

GroupImages == ImagesOver({<<100>>}, GroupContours)

\* the images uploaded one after another
RerunImages ==
  {BlankImage,
   [ink_pixels |-> <<100>>, word_contours |-> <<Contour(5, 0, 60, 60, -10)>>],
   [ink_pixels |-> <<200, 250>>, word_contours |-> <<Contour(200, 50, 8, 8, -90)>>],
   [ink_pixels |-> <<0, 255>>,
    word_contours |-> <<Contour(80, 10, 30, 20, -80), Contour(5, 0, 60, 60, -10)>>],
   [ink_pixels |-> <<0>>,
    word_contours |-> <<Contour(5, 0, 60, 60, -10), Contour(80, 10, 30, 20, -80),
                        Contour(5, 100, 12, 40, -85), Contour(60, 104, 60, 60, -3)>>]}

\* feature vectors a caller builds by hand, around every threshold of the
\* rules and at the extremes
FeatureVectors ==
  {[pressure |-> R(p), letter_size |-> R(ls), slant |-> R(sl),
    baseline_slope |-> Rat(bs, 100), word_spacing |-> R(ws),
    line_spacing |-> R(0), left_margin |-> R(lm)] :
     p \in {0, 100, 120, 180, 255},
     ls \in {0, 24, 25, 30, 50, 60},
     sl \in {-90, -6, -5, 0, 5, 8, 90},
     bs \in {-8, -5, 0, 5, 8},
     ws \in {0, 5, 15, 30, 31},
     lm \in {0, 20, 30, 40, 50, 10000}}

(***************************************************************************)
(* The calls                                                               *)
(***************************************************************************)
\* app.py: features = extract_graphological_features(gray_img, bin_img, lines)
Extract ==
  /\ phase = "start"
  /\ features' = extract_graphological_features(image)
  /\ lines_of_words' = LinesOfWords(image)
  /\ phase' = "extracted"
  /\ UNCHANGED <<image, quantitative, descriptive, preclamp, seen>>

\* app.py: q_profile, d_profile = get_personality_profile(features)
Profile ==
  /\ phase = "extracted"
  /\ LET r == get_personality_profile(features)
     IN /\ quantitative' = r.quantitative
        /\ descriptive' = r.descriptive
        /\ preclamp' = r.preclamp
        /\ features' = r.features
        /\ seen' = Append(seen, [image |-> image, extracted |-> features,
                                 features |-> r.features,
                                 quantitative |-> r.quantitative,
                                 descriptive |-> r.descriptive])
  /\ phase' = "profiled"
  /\ UNCHANGED <<image, lines_of_words>>

\* app.py: another file is uploaded and the script runs again
Upload(img) ==
  /\ phase = "profiled"
  /\ Len(seen) < MaxRuns
  /\ image' = img
  /\ phase' = "start"
  /\ UNCHANGED <<features, quantitative, descriptive, preclamp,
                 lines_of_words, seen>>

NothingYet ==
  /\ features = EmptyDict
  /\ quantitative = EmptyDict
  /\ descriptive = EmptyDict
  /\ preclamp = EmptyDict
  /\ lines_of_words = <<>>
  /\ seen = <<>>

\* one run of the pipeline on an image
Init ==
  /\ image \in Images
  /\ phase = "start"
  /\ NothingYet

Next == Extract \/ Profile

Spec == Init /\ [][Next]_vars

\* one run of the pipeline on an image of the grouping cases
InitGroup ==
  /\ image \in GroupImages
  /\ phase = "start"
  /\ NothingYet

SpecGroup == InitGroup /\ [][Next]_vars

\* get_personality_profile called on a feature vector built by hand
InitProfile ==
  /\ image = BlankImage
  /\ features \in FeatureVectors
  /\ phase = "extracted"
  /\ quantitative = EmptyDict
  /\ descriptive = EmptyDict
  /\ preclamp = EmptyDict
  /\ lines_of_words = <<>>
  /\ seen = <<>>

NextProfile == Profile

SpecProfile == InitProfile /\ [][NextProfile]_vars

\* the pipeline run again and again, on the same and on other images
InitRerun ==
  /\ image \in RerunImages
  /\ phase = "start"
  /\ NothingYet

NextRerun == Extract \/ Profile \/ \E img \in RerunImages : Upload(img)

SpecRerun == InitRerun /\ [][NextRerun]_vars

(***************************************************************************)
(* Claims about get_personality_profile (SpecProfile)                      *)
(***************************************************************************)
Zero == R(0)

\* C1: for every feature vector, the extremes included, each of the six
\* scores returned lies in [0.1, 1.0]
C1_ScoresWithinRange ==
  phase = "profiled" =>
    \A k \in Traits : 1000 <= quantitative[k] /\ quantitative[k] <= 10000

C1_Witness ==
  /\ phase = "profiled"
  /\ features.pressure = R(0)
  /\ features.slant = R(90)
  /\ features.left_margin = R(10000)
  /\ quantitative.Discipline = 3000

\* the feature vector of the scenario (line_spacing is not read by the scorer)
IsScenarioVector(f) ==
  /\ f.slant = R(8) /\ f.word_spacing = R(5) /\ f.letter_size = R(30)
  /\ f.pressure = R(100) /\ f.baseline_slope = Rat(8, 100)
  /\ f.left_margin = R(50)

\* C3 as claimed: the scenario vector scores Sociability 0.8, the spacing
\* rule leaving it alone, Focus 0.5, Intensity 0.8, Optimism 0.8,
\* Discipline 0.3, Spontaneity 0.2
C3_Original ==
  (phase = "profiled" /\ IsScenarioVector(features)) =>
    /\ quantitative = [Sociability |-> 8000, Focus |-> 5000,
                       Intensity |-> 8000, Optimism |-> 8000,
                       Discipline |-> 3000, Spontaneity |-> 2000]
    /\ "Social Type" \notin DOMAIN descriptive

\* C3 as amended: word_spacing 5 is below half of letter_size 30, so the
\* spacing rule adds 0.2 and Sociability is 1.0; the other five scores are
\* Focus 0.5, Intensity 0.8, Optimism 0.8, Discipline 0.3, Spontaneity 0.2
C3_Amended ==
  (phase = "profiled" /\ IsScenarioVector(features)) =>
    /\ quantitative = [Sociability |-> 10000, Focus |-> 5000,
                       Intensity |-> 8000, Optimism |-> 8000,
                       Discipline |-> 3000, Spontaneity |-> 2000]
    /\ preclamp.Sociability = 10000
    /\ descriptive["Social Type"] = "Sociable, seeks closeness."

C3_Witness == phase = "profiled" /\ IsScenarioVector(features)

Straight(f) ==
  RLe(Rat(-5, 100), f.baseline_slope) /\ RLe(f.baseline_slope, Rat(5, 100))

Vertical(f) == RLe(R(-5), f.slant) /\ RLe(f.slant, R(5))

DescriptiveLabels ==
  {"Outlook", "Social Type", "Focus", "Intensity", "Mood", "Planning"}

\* C8: Discipline is 1.0, 0.8, 0.5 or 0.3 for (straight, vertical),
\* (straight, slanted), (not straight, vertical), (not straight, slanted),
\* bounds of both bands included, before and after the clamp, and the
\* descriptive mapping gets no entry for it
C8_DisciplineTable ==
  phase = "profiled" =>
    /\ quantitative.Discipline =
         IF Straight(features)
         THEN (IF Vertical(features) THEN 10000 ELSE 8000)
         ELSE (IF Vertical(features) THEN 5000 ELSE 3000)
    /\ preclamp.Discipline = quantitative.Discipline
    /\ "Discipline" \notin DOMAIN descriptive

C8_Witness ==
  /\ phase = "profiled"
  /\ features.baseline_slope = Rat(5, 100)
  /\ features.slant = R(-5)
  /\ quantitative.Discipline = 10000

WideSpacing(f) == RGt(f.word_spacing, f.letter_size)

NarrowSpacing(f) == RLt(f.word_spacing, RHalf(f.letter_size))

\* C9: quantitative has exactly the six trait keys; 'Social Type' is present
\* exactly when word_spacing > letter_size or word_spacing < letter_size/2,
\* 'Planning' exactly when left_margin > 40 or left_margin < 20; no other
\* label than the six known ones appears
C9_KeysOfTheMappings ==
  phase = "profiled" =>
    /\ DOMAIN quantitative = Traits
    /\ ("Social Type" \in DOMAIN descriptive)
         <=> (WideSpacing(features) \/ NarrowSpacing(features))
    /\ ("Planning" \in DOMAIN descriptive)
         <=> (RGt(features.left_margin, R(40)) \/ RLt(features.left_margin, R(20)))
    /\ DOMAIN descriptive \subseteq DescriptiveLabels

C9_Witness ==
  /\ phase = "profiled"
  /\ features.left_margin = R(40)
  /\ features.word_spacing = features.letter_size
  /\ DOMAIN descriptive = {"Outlook", "Focus", "Intensity", "Mood"}

SlantBaseline(f) ==
  IF RGt(f.slant, R(5)) THEN 8000
  ELSE IF RLt(f.slant, R(-5)) THEN 2000 ELSE 4000

AllZero(f) ==
  /\ DOMAIN f = FeatureKeys
  /\ \A k \in FeatureKeys : f[k] = Zero

\* C2 as claimed: a mask without ink gives seven features equal to 0, and
\* the profile of that vector is 0.5 in every trait except Sociability 0.4
C2_Original ==
  (phase # "start" /\ image.ink_pixels = <<>>) =>
    /\ AllZero(features)
    /\ phase = "profiled" =>
         quantitative = [Sociability |-> 4000, Focus |-> 5000,
                         Intensity |-> 5000, Optimism |-> 5000,
                         Discipline |-> 5000, Spontaneity |-> 5000]

\* C2 as amended: a mask without ink gives seven features equal to 0, and
\* the profile of that vector is Sociability 0.4, Focus 0.9 (letter_size 0 is
\* below 25), Intensity 0.8 (pressure 0 is below 120), Optimism 0.5,
\* Discipline 1.0 (straight baseline, vertical slant), Spontaneity 0.9
\* (left_margin 0 is below 20)
C2_Amended ==
  (phase # "start" /\ image.ink_pixels = <<>>) =>
    /\ AllZero(features)
    /\ phase = "profiled" =>
         quantitative = [Sociability |-> 4000, Focus |-> 9000,
                         Intensity |-> 8000, Optimism |-> 5000,
                         Discipline |-> 10000, Spontaneity |-> 9000]

C2_Witness == phase = "profiled" /\ image.ink_pixels = <<>>

\* the reference y of an emitted line: the y of the box visited first, which
\* is the smallest of the line since boxes are visited by ascending (y, x)
RefY(line) ==
  CHOOSE y \in {line[i].y : i \in 1..Len(line)} :
    \A j \in 1..Len(line) : y <= line[j].y

\* the box of a line that was visited first
FirstVisited(line) ==
  CHOOSE b \in {line[i] : i \in 1..Len(line)} :
    \A j \in 1..Len(line) : Le("yx", b, line[j])

SortedWordBoxes(img) == SortBy("yx", WordBoxes(img))

YsAre(img, ys) ==
  /\ Len(SortedWordBoxes(img)) = Len(ys)
  /\ \A i \in 1..Len(ys) :
       SortedWordBoxes(img)[i].y = ys[i] /\ SortedWordBoxes(img)[i].h = 20

\* C4 as claimed: a box joins the current line when |y - reference y| is at
\* most 0.7 times its own height and starts a new line when it is strictly
\* greater (an exactly equal gap does not split); boxes of height 20 at
\* y = 0, 2, 50, 52 give two lines of two, at y = 0, 16 two lines of one
C4_Original ==
  phase # "start" =>
    /\ \A i \in 1..Len(lines_of_words) : \A j \in 1..Len(lines_of_words[i]) :
         10 * Abs(lines_of_words[i][j].y - RefY(lines_of_words[i]))
           <= 7 * lines_of_words[i][j].h
    /\ \A i \in 2..Len(lines_of_words) :
         10 * Abs(FirstVisited(lines_of_words[i]).y - RefY(lines_of_words[i - 1]))
           > 7 * FirstVisited(lines_of_words[i]).h
    /\ YsAre(image, <<0, 2, 50, 52>>) =>
         /\ Len(lines_of_words) = 2
         /\ Len(lines_of_words[1]) = 2 /\ Len(lines_of_words[2]) = 2
    /\ YsAre(image, <<0, 16>>) =>
         /\ Len(lines_of_words) = 2
         /\ Len(lines_of_words[1]) = 1 /\ Len(lines_of_words[2]) = 1

\* C5: on every return path the result has exactly the seven keys, each a
\* finite number, and a feature whose sample set is empty is 0
C5_SevenFiniteFeatures ==
  phase # "start" =>
    /\ DOMAIN features = FeatureKeys
    /\ \A k \in FeatureKeys : IsFinite(features[k])
    /\ image.ink_pixels = <<>> => features.pressure = Zero
    /\ WordBoxes(image) = <<>> => features.letter_size = Zero
    /\ WordAngles(image) = <<>> => features.slant = Zero
    /\ Samples(image).word_gaps = <<>> => features.word_spacing = Zero
    /\ Samples(image).left_margins = <<>> => features.left_margin = Zero
    /\ Samples(image).baseline_slopes = <<>> => features.baseline_slope = Zero
    /\ Len(Samples(image).line_y_coords) < 2 => features.line_spacing = Zero

C5_Witness ==
  /\ phase = "extracted"
  /\ Len(lines_of_words) = 2
  /\ Samples(image).word_gaps = <<>>
  /\ Len(Samples(image).baseline_slopes) = 1
  /\ features.line_spacing = Zero
  /\ features.baseline_slope # Zero

IsSingle60Box(img) ==
  /\ HasContours(img)
  /\ Len(WordBoxes(img)) = 1
  /\ WordBoxes(img)[1].w = 60
  /\ WordBoxes(img)[1].h = 60

\* C6: a single word box of width 60 and height 60 at x gives letter_size 60,
\* left_margin x, and word_spacing, baseline_slope and line_spacing 0
C6_SingleWordBox ==
  (phase # "start" /\ IsSingle60Box(image)) =>
    /\ features.letter_size = R(60)
    /\ features.left_margin = R(WordBoxes(image)[1].x)
    /\ features.word_spacing = Zero
    /\ features.baseline_slope = Zero
    /\ features.line_spacing = Zero

C6_Witness ==
  /\ phase = "extracted"
  /\ IsSingle60Box(image)
  /\ Len(image.word_contours) = 2
  /\ features.left_margin = R(60)

LineYs(line) == {line[i].y : i \in 1..Len(line)}

\* the lines a box of the image was put in
LinesHolding(b) ==
  {i \in 1..Len(lines_of_words) :
     \E j \in 1..Len(lines_of_words[i]) : lines_of_words[i][j] = b}

RECURSIVE TotalLen(_)
TotalLen(ls) == IF ls = <<>> THEN 0 ELSE Len(Head(ls)) + TotalLen(Tail(ls))

\* C11: the reference y of a line is the y of its first box and boxes
\* appended to the line do not move it (every box of a line passed the test
\* against the line's first box, and the box that opened a line failed it
\* against the first box of the line before; heights 20 at y = 0, 10, 20 give
\* the lines {0, 10} and {20}); every line is non-empty and ascending in x,
\* the lines ascend in reference y, and each retained box is in exactly one
\* line
C11_ReferenceIsFirstBox ==
  phase # "start" =>
    /\ \A i \in 1..Len(lines_of_words) :
         /\ lines_of_words[i] # <<>>
         /\ \A j \in 1..Len(lines_of_words[i]) :
              ~StartsNewLine(lines_of_words[i][j].y, RefY(lines_of_words[i]),
                             lines_of_words[i][j].h)
         /\ \A j \in 1..(Len(lines_of_words[i]) - 1) :
              lines_of_words[i][j].x <= lines_of_words[i][j + 1].x
    /\ \A i \in 2..Len(lines_of_words) :
         /\ RefY(lines_of_words[i - 1]) < RefY(lines_of_words[i])
         /\ StartsNewLine(FirstVisited(lines_of_words[i]).y,
                          RefY(lines_of_words[i - 1]),
                          FirstVisited(lines_of_words[i]).h)
    /\ TotalLen(lines_of_words) = Len(WordBoxes(image))
    /\ \A k \in 1..Len(WordBoxes(image)) :
         Cardinality(LinesHolding(WordBoxes(image)[k])) = 1
    /\ YsAre(image, <<0, 10, 20>>) =>
         /\ Len(lines_of_words) = 2
         /\ LineYs(lines_of_words[1]) = {0, 10}
         /\ LineYs(lines_of_words[2]) = {20}

C11_Witness ==
  /\ phase = "extracted"
  /\ YsAre(image, <<0, 10, 20>>)
  /\ Len(lines_of_words) = 2
  /\ Len(lines_of_words[1]) = 2

(***************************************************************************)
(* Claims about the features (Spec)                                        *)
(***************************************************************************)
\* C12: with at least one ink pixel, pressure is the mean intensity of the
\* ink pixels (pressure * count = sum), also when all of them are 0; with
\* none, pressure is 0
C12_PressureIsMeanOfInk ==
  phase # "start" =>
    /\ image.ink_pixels # <<>> =>
         /\ IsFinite(features.pressure)
         /\ features.pressure[1] * Len(image.ink_pixels)
              = SeqSum(image.ink_pixels) * features.pressure[2]
    /\ image.ink_pixels = <<>> => features.pressure = Zero

C12_Witness ==
  /\ phase = "extracted"
  /\ image.ink_pixels = <<0, 0>>
  /\ WordBoxes(image) # <<>>
  /\ features.pressure = Zero

\* a line of at least two words
Qualifies(line) == Len(line) >= 2

\* the median of the words' bottom edges y + height
BottomEdge(line) ==
  Median([j \in 1..Len(line) |-> R(line[j].y + line[j].h)])

QualifyingLines == SelectSeq(lines_of_words, Qualifies)

\* C13: line_spacing is the median of the differences between the median
\* bottom edges of consecutive lines of at least two words, in the order of
\* the lines; lines of one word are passed over, and with fewer than two
\* lines of at least two words line_spacing is 0
C13_LineSpacing ==
  phase # "start" =>
    LET q == QualifyingLines
        gaps == [i \in 1..(Len(q) - 1) |->
                   RSub(BottomEdge(q[i + 1]), BottomEdge(q[i]))]
    IN /\ Len(q) >= 2 => features.line_spacing = Median(gaps)
       /\ Len(q) < 2 => features.line_spacing = Zero

\* a line of one word lies between two lines of two words
C13_Witness ==
  /\ phase = "extracted"
  /\ Len(lines_of_words) = 3
  /\ Len(lines_of_words[2]) = 1
  /\ Len(QualifyingLines) = 2
  /\ features.line_spacing = R(185)

(***************************************************************************)
(* Claims about the scores before the clamp (SpecProfile)                  *)
(***************************************************************************)
\* C14: each of the six scores the rules compute lies in [0.1, 1.0] before
\* the clamp loop, so the loop changes none; a score stands on a bound only
\* as Sociability 0.2 - 0.1 = 0.1 (left slant, wide spacing), Sociability
\* 0.8 + 0.2 = 1.0 (right slant, narrow spacing) or Discipline
\* 0.8 + 0.2 = 1.0 (straight baseline, vertical slant)
C14_ClampChangesNothing ==
  phase = "profiled" =>
    /\ DOMAIN preclamp = Traits
    /\ \A k \in Traits : 1000 <= preclamp[k] /\ preclamp[k] <= 10000
    /\ quantitative = preclamp
    /\ \A k \in Traits :
         preclamp[k] \in {1000, 10000} =>
           \/ /\ k = "Sociability" /\ preclamp[k] = 1000
              /\ RLt(features.slant, R(-5)) /\ WideSpacing(features)
           \/ /\ k = "Sociability" /\ preclamp[k] = 10000
              /\ RGt(features.slant, R(5)) /\ NarrowSpacing(features)
           \/ /\ k = "Discipline" /\ preclamp[k] = 10000
              /\ Straight(features) /\ Vertical(features)

C14_Witness ==
  /\ phase = "profiled"
  /\ preclamp.Sociability = 1000
  /\ quantitative.Sociability = 1000
  /\ RLt(features.slant, R(-5))
  /\ WideSpacing(features)

====
